---- MODULE Spec2Model ----
(***************************************************************************)
(* Model of piinguin's suggestion engine (src/src/main.rs):                *)
(*   - get_value_by_path, the dot-path resolver over Annotated<Value>;     *)
(*   - get_rule_suggestions_for_value, the search over rule x PII kind;    *)
(*   - PiiConfig::strip_event, the call into the marshal processor.        *)
(* Strings the code takes apart (paths, map keys, rule names) are          *)
(* sequences of tokens, one token per character; a rule name whose         *)
(* characters the code never inspects is a single token.                   *)
(***************************************************************************)
EXTENDS Integers, Sequences, FiniteSets, TLC

VARIABLES
    \* one call of get_value_by_path (specification SpecResolve)
    root, rpath, rresult, rpc,
    \* one call of get_rule_suggestions_for_value (specification Spec):
    \* the processor, the arguments, the locals, the returned value
    proc, event, config, path,
    pc, old_result, old_value, parsed_config, rules, rv,
    ri, ki, key_config, key, ret,
    \* history: strip_event invocations, whether each candidate evaluated so
    \* far was accepted, and the details of the latest candidate
    calls, log, last,
    \* the PiiDemo component (specification SpecDemo): the struct, what the
    \* latest update() returned, the message it handled, and how many
    \* suggestions were accepted
    self, should_render, message, accepted

vars == <<root, rpath, rresult, rpc, proc, event, config, path, pc,
          old_result, old_value, parsed_config, rules, rv, ri, ki,
          key_config, key, ret, calls, log, last, self, should_render,
          message, accepted>>

demo_vars == <<self, should_render, message, accepted>>

----------------------------------------------------------------------------
(* Bounds *)

\* longest path handed to get_value_by_path in SpecResolve
MaxPathLen == 5

----------------------------------------------------------------------------
(* Strings *)

Dot == "."

Digits == {"0", "1", "2", "3", "4", "5", "6", "7", "8", "9"}

DigitValue(c) ==
    CASE c = "0" -> 0 [] c = "1" -> 1 [] c = "2" -> 2 [] c = "3" -> 3
      [] c = "4" -> 4 [] c = "5" -> 5 [] c = "6" -> 6 [] c = "7" -> 7
      [] c = "8" -> 8 [] c = "9" -> 9

\* position of the first '.' in s, 0 when there is none
FirstDot(s) ==
    IF \E i \in 1..Len(s) : s[i] = Dot
    THEN CHOOSE i \in 1..Len(s) :
            s[i] = Dot /\ \A j \in 1..(i - 1) : s[j] # Dot
    ELSE 0

\* position of the last '.' in s, 0 when there is none
LastDot(s) ==
    IF \E i \in 1..Len(s) : s[i] = Dot
    THEN CHOOSE i \in 1..Len(s) :
            s[i] = Dot /\ \A j \in (i + 1)..Len(s) : s[j] # Dot
    ELSE 0

\* path.splitn(2, '.').collect(): one or two parts, split at the first '.'
splitn2(s) ==
    LET d == FirstDot(s)
    IN  IF d = 0 THEN <<s>>
        ELSE <<SubSeq(s, 1, d - 1), SubSeq(s, d + 1, Len(s))>>

\* path.rsplitn(2, '.').next(): the text after the last '.', or all of it
rsplitn2_first(s) == SubSeq(s, LastDot(s) + 1, Len(s))

RECURSIVE DigitsValue(_)
DigitsValue(s) ==
    IF s = <<>> THEN 0
    ELSE 10 * DigitsValue(SubSeq(s, 1, Len(s) - 1)) + DigitValue(s[Len(s)])

RECURSIVE StripLeadingZeros(_)
StripLeadingZeros(s) ==
    IF Len(s) > 1 /\ s[1] = "0" THEN StripLeadingZeros(Tail(s)) ELSE s

\* usize::MAX in decimal.  The program runs in the browser (stdweb, yew),
\* where usize has 32 bits.
UsizeMaxDigits == <<"4", "2", "9", "4", "9", "6", "7", "2", "9", "5">>

\* the number written d (no leading zeros) exceeds usize::MAX
ExceedsUsize(d) ==
    \/ Len(d) > Len(UsizeMaxDigits)
    \/ /\ Len(d) = Len(UsizeMaxDigits)
       /\ \E i \in 1..Len(d) :
            /\ \A j \in 1..(i - 1) : d[j] = UsizeMaxDigits[j]
            /\ DigitValue(d[i]) > DigitValue(UsizeMaxDigits[i])

\* the number written d; a number of ten digits, which no array of the model
\* reaches, is given as 10^9
IndexValue(d) == IF Len(d) > 9 THEN 1000000000 ELSE DigitsValue(d)

\* usize::from_str(segment): an optional leading '+', then one or more
\* decimal digits; Err on an empty string, on any other character, and on a
\* number that overflows usize.
usize_from_str(s) ==
    IF /\ (IF s # <<>> /\ s[1] = "+" THEN Tail(s) ELSE s) # <<>>
       /\ \A i \in 1..Len(s) : s[i] \in Digits \/ (i = 1 /\ s[i] = "+")
       /\ ~ExceedsUsize(StripLeadingZeros(
                IF s[1] = "+" THEN Tail(s) ELSE s))
    THEN [ok |-> TRUE,
          n |-> IndexValue(StripLeadingZeros(
                    IF s[1] = "+" THEN Tail(s) ELSE s))]
    ELSE [ok |-> FALSE, n |-> 0]

----------------------------------------------------------------------------
(* Annotated<Value>: a pair (Option<Value>, Meta) *)

NoValue == [kind |-> "absent"]
StrValue(s) == [kind |-> "str", s |-> s]
ArrayValue(items) == [kind |-> "arr", items |-> items]
MapValue(m) == [kind |-> "map", m |-> m]

Meta(p, remarks) == [path |-> p, remarks |-> remarks]
Annotated(v, meta) == [val |-> v, meta |-> meta]

\* Option<&Annotated<Value>>, and the fault of web_panic!
Some(node) == [tag |-> "Some", node |-> node]
None == [tag |-> "None"]
Panic == [tag |-> "Panic"]

\* the resolver with the remainder dropped after the first step
RECURSIVE get_value_by_path_noremainder(_, _)
get_value_by_path_noremainder(value, p) ==
    IF p = <<>> \/ p = <<Dot>> THEN Some(value)
    ELSE
        LET parts == splitn2(p)
            segment == parts[1]
            v == value.val
        IN  IF segment = <<>> THEN Panic
            ELSE IF v.kind = "arr" THEN
                LET idx == usize_from_str(segment)
                IN  IF ~idx.ok THEN Panic
                    ELSE IF idx.n < Len(v.items)
                         THEN Some(v.items[idx.n + 1])
                         ELSE None
            ELSE IF v.kind = "map" THEN
                IF segment \in DOMAIN v.m THEN Some(v.m[segment]) ELSE None
            ELSE None

RECURSIVE get_value_by_path(_, _)
get_value_by_path(value, p) ==
    IF p = <<>> \/ p = <<Dot>> THEN Some(value)
    ELSE
        LET parts == splitn2(p)
            segment == parts[1]
            rest == IF Len(parts) >= 2 THEN parts[2] ELSE <<>>
            v == value.val
        IN  IF segment = <<>> THEN Panic
            ELSE IF v.kind = "arr" THEN
                LET idx == usize_from_str(segment)
                IN  IF ~idx.ok THEN Panic
                    ELSE IF idx.n < Len(v.items)
                         THEN get_value_by_path(v.items[idx.n + 1], rest)
                         ELSE None
            ELSE IF v.kind = "map" THEN
                IF segment \in DOMAIN v.m
                THEN get_value_by_path(v.m[segment], rest)
                ELSE None
            ELSE None

----------------------------------------------------------------------------
(* Program constants *)

PII_KINDS ==
    <<"freeform", "ip", "id", "username", "hostname", "sensitive", "name",
      "email", "databag">>

BUILTIN_RULES ==
    << <<"@ip:replace">>, <<"@ip:hash">>, <<"@imei:replace">>,
       <<"@imei:hash">>, <<"@mac:replace">>, <<"@mac:mask">>,
       <<"@mac:hash">>, <<"@email:mask">>, <<"@email:replace">>,
       <<"@email:hash">>, <<"@creditcard:mask">>, <<"@creditcard:replace">>,
       <<"@creditcard:hash">>, <<"@userpath:replace">>, <<"@userpath:hash">>,
       <<"@password:remove">> >>

----------------------------------------------------------------------------
(* serde_json::Value, and the text of a PiiConfig *)

JObj(m) == [kind |-> "obj", m |-> m]
JArr(items) == [kind |-> "arr", items |-> items]
JStr(s) == [kind |-> "str", s |-> s]
JNum == [kind |-> "num"]

EmptyMap == <<>>

\* A config text: whether it is JSON at all, the JSON value it denotes, and
\* its layout.  Parsing drops the layout; serializing always writes "pretty".
Text(json, style) == [wf |-> TRUE, json |-> json, style |-> style]
Garbage == [wf |-> FALSE, json |-> JNum, style |-> "compact"]

\* serde_json::to_string_pretty(&new_config), wrapped in PiiConfig
to_string_pretty(doc) == Text(JObj(doc), "pretty")

Ok(x) == [ok |-> TRUE, v |-> x, msg |-> ""]
Err(msg) == [ok |-> FALSE, v |-> EmptyMap, msg |-> msg]

\* names of the rules a structural document defines, in the order the map
\* yields its keys (sorted by name)
RuleNameOrder ==
    << <<"@ip:replace">>, <<"device_id">>,
       <<"remove_all_", "f", "_keys">>, <<"remove_all_", "m", "_keys">> >>

user_rule_names(doc) ==
    IF "rules" \in DOMAIN doc /\ doc["rules"].kind = "obj"
    THEN SelectSeq(RuleNameOrder, LAMBDA n : n \in DOMAIN doc["rules"].m)
    ELSE <<>>

\* the splice that puts the reference first in the list
add_rule_to_pii_kind_prepend(doc, pii_kind, rule) ==
    LET d1 == IF "applications" \in DOMAIN doc THEN doc
              ELSE doc @@ ("applications" :> JObj(EmptyMap))
        apps == d1["applications"]
    IN  IF apps.kind # "obj" THEN Err("Bad applications value")
        ELSE
            LET a1 == IF pii_kind \in DOMAIN apps.m THEN apps.m
                      ELSE apps.m @@ (pii_kind :> JArr(<<>>))
                lst == a1[pii_kind]
            IN  IF lst.kind # "arr" THEN Err("Bad PII kind value")
                ELSE Ok([d1 EXCEPT !["applications"] =
                            JObj([a1 EXCEPT ![pii_kind] =
                                JArr(<<JStr(rule)>> \o lst.items)])])

add_rule_to_pii_kind(doc, pii_kind, rule) ==
    LET d1 == IF "applications" \in DOMAIN doc THEN doc
              ELSE doc @@ ("applications" :> JObj(EmptyMap))
        apps == d1["applications"]
    IN  IF apps.kind # "obj" THEN Err("Bad applications value")
        ELSE
            LET a1 == IF pii_kind \in DOMAIN apps.m THEN apps.m
                      ELSE apps.m @@ (pii_kind :> JArr(<<>>))
                lst == a1[pii_kind]
            IN  IF lst.kind # "arr" THEN Err("Bad PII kind value")
                ELSE Ok([d1 EXCEPT !["applications"] =
                            JObj([a1 EXCEPT ![pii_kind] =
                                JArr(Append(lst.items, JStr(rule)))])])

\* format!("remove_all_{}_keys", key)
key_rule_name(k) == <<"remove_all_">> \o k \o <<"_keys">>

\* json!({"type": "redactPair", "keyPattern": key})
redact_pair_rule(k) ==
    JObj(("type" :> JStr(<<"redactPair">>)) @@ ("keyPattern" :> JStr(k)))

\* lines 190-203: the clone that also defines the synthetic rule
define_key_rule(doc, k) ==
    LET d1 == IF "rules" \in DOMAIN doc THEN doc
              ELSE doc @@ ("rules" :> JObj(EmptyMap))
        rs == d1["rules"]
    IN  IF rs.kind # "obj" THEN Err("Bad rules value")
        ELSE Ok([d1 EXCEPT !["rules"] =
                    JObj((key_rule_name(k) :> redact_pair_rule(k)) @@ rs.m)])

----------------------------------------------------------------------------
(* The marshal processor behind PiiConfig::strip_event.  Its code is not   *)
(* part of the program: it is a parameter of the model, `proc`, drawn from *)
(* ProcSet.  A processor reads the config (applications: PII kind -> rule  *)
(* references; rules: name -> definition), walks the event and applies to  *)
(* every field the rules listed under the field's PII kind.                *)

\* an event field: its value and the PII kind its schema gives it
EventNode(v, pii) == [val |-> v, pii |-> pii]

Remark(rule, ty) == [rule |-> rule, ty |-> ty]

IsRedactPair(def) ==
    /\ def.kind = "obj"
    /\ "type" \in DOMAIN def.m
    /\ def.m["type"] = JStr(<<"redactPair">>)
    /\ "keyPattern" \in DOMAIN def.m
    /\ def.m["keyPattern"].kind = "str"

\* the rule references listed under each PII kind that holds a list
compiled_applications(appsM) ==
    [k \in {c \in DOMAIN appsM : appsM[c].kind = "arr"} |->
        [i \in 1..Len(appsM[k].items) |-> appsM[k].items[i].s]]

\* a reference names a rule the config defines or a supported built-in
references_known(p, apps, defs) ==
    \A k \in DOMAIN apps : \A i \in 1..Len(apps[k]) :
        \/ apps[k][i] \in DOMAIN defs
        \/ /\ \E b \in 1..Len(BUILTIN_RULES) : BUILTIN_RULES[b] = apps[k][i]
           /\ apps[k][i] \notin p.unsupported

member_is_object(top, name) == name \notin DOMAIN top \/ top[name].kind = "obj"

object_member(top, name) ==
    IF name \in DOMAIN top /\ top[name].kind = "obj" THEN top[name].m
    ELSE EmptyMap

compile_config(p, shapeOk, apps, defs) ==
    [ok |-> (shapeOk \/ p.lenient) /\ references_known(p, apps, defs),
     apps |-> apps, defs |-> defs]

compile_object(p, isObject, top, appsM) ==
    compile_config(p,
        /\ isObject
        /\ member_is_object(top, "applications")
        /\ member_is_object(top, "rules")
        /\ \A k \in DOMAIN appsM : appsM[k].kind = "arr",
        compiled_applications(appsM),
        object_member(top, "rules"))

compile_top(p, isObject, top) ==
    compile_object(p, isObject, top, object_member(top, "applications"))

\* ProcessorPiiConfig::from_json: the compiled config, or a failure
processor_from_json(p, text) ==
    IF ~text.wf THEN [ok |-> FALSE, apps |-> EmptyMap, defs |-> EmptyMap]
    ELSE compile_top(p, text.json.kind = "obj",
                     IF text.json.kind = "obj" THEN text.json.m ELSE EmptyMap)

\* what rule r does to a field holding value v under key k
rule_effect(p, cfg, r, v, k) ==
    IF r \in DOMAIN cfg.defs THEN
        IF IsRedactPair(cfg.defs[r])
        THEN IF k # <<>> /\ k = cfg.defs[r].m["keyPattern"].s
             THEN "remove" ELSE "noop"
        ELSE IF v.kind = "str" THEN p.user_effect ELSE "noop"
    ELSE IF r = p.hot /\ v.kind = "str" THEN p.hot_effect
    ELSE "noop"

apply_effect(how, r, a) ==
    CASE how = "replace" ->
            Annotated(StrValue(<<"[">> \o r \o <<"]">>),
                      Meta(a.meta.path, Append(a.meta.remarks, Remark(r, "s"))))
      [] how = "remove" /\ a.val.kind # "absent" ->
            Annotated(NoValue,
                      Meta(a.meta.path, Append(a.meta.remarks, Remark(r, "x"))))
      [] how = "remark" ->
            Annotated(a.val,
                      Meta(a.meta.path, Append(a.meta.remarks, Remark(r, "a"))))
      [] OTHER -> a

RECURSIVE apply_rules(_, _, _, _, _, _)
apply_rules(p, cfg, refs, i, a, k) ==
    IF i > Len(refs) THEN a
    ELSE apply_rules(p, cfg, refs, i + 1,
            apply_effect(rule_effect(p, cfg, refs[i], a.val, k), refs[i], a), k)

child_path(here, seg) == IF here = <<>> THEN seg ELSE here \o <<Dot>> \o seg

\* decimal text of a small array index
index_text(i) ==
    IF i < 10 THEN <<CHOOSE c \in Digits : DigitValue(c) = i>>
    ELSE <<CHOOSE c \in Digits : DigitValue(c) = i \div 10,
           CHOOSE c \in Digits : DigitValue(c) = i % 10>>

refs_for(cfg, pii) == IF pii \in DOMAIN cfg.apps THEN cfg.apps[pii] ELSE <<>>

\* processor().process_root_value(event), read back as Annotated<Value>:
\* every node carries its path and the remarks of the rules that changed it
RECURSIVE process_value(_, _, _, _, _)
process_value(p, cfg, n, here, k) ==
    apply_rules(p, cfg, refs_for(cfg, n.pii), 1,
        Annotated(
            IF n.val.kind = "arr" THEN
                ArrayValue([i \in 1..Len(n.val.items) |->
                    process_value(p, cfg, n.val.items[i],
                                  child_path(here, index_text(i - 1)), <<>>)])
            ELSE IF n.val.kind = "map" THEN
                MapValue([c \in DOMAIN n.val.m |->
                    process_value(p, cfg, n.val.m[c], child_path(here, c), c)])
            ELSE n.val,
            Meta(here, <<>>)),
        k)

RECURSIVE has_remarks(_)
has_remarks(a) ==
    \/ a.meta.remarks # <<>>
    \/ /\ a.val.kind = "arr"
       /\ \E i \in 1..Len(a.val.items) : has_remarks(a.val.items[i])
    \/ /\ a.val.kind = "map"
       /\ \E c \in DOMAIN a.val.m : has_remarks(a.val.m[c])

MetaKey == <<"_meta">>

\* to_json() then StrippedEvent::from_json(): a root map that carries
\* metadata comes back with a "_meta" member
json_round_trip(a) ==
    IF a.val.kind = "map" /\ has_remarks(a)
    THEN Annotated(
            MapValue((MetaKey :> Annotated(MapValue(EmptyMap), Meta(MetaKey, <<>>)))
                     @@ a.val.m),
            a.meta)
    ELSE a

Stripped(a) == [ok |-> TRUE, tree |-> a]
StripFailed == [ok |-> FALSE, tree |-> Annotated(NoValue, Meta(<<>>, <<>>))]

\* lines 239-243: map.remove("_meta") on a root that is a map
remove_meta(result) ==
    IF result.val.kind = "map"
    THEN Annotated(MapValue([c \in (DOMAIN result.val.m) \ {MetaKey} |->
                                result.val.m[c]]),
                   result.meta)
    ELSE result

\* lines 231-245, the config parsed
strip_with(p, cfg, ev) ==
    IF ~cfg.ok THEN StripFailed
    ELSE Stripped(remove_meta(
            json_round_trip(process_value(p, cfg, ev, <<>>, <<>>))))

\* PiiConfig::strip_event
strip_event(p, text, ev) == strip_with(p, processor_from_json(p, text), ev)

----------------------------------------------------------------------------
(* get_rule_suggestions_for_value *)

\* .map(|x| x.value()): Option<Option<&Value>>, the node's metadata dropped
observed(res) ==
    IF res.tag = "Some" THEN [tag |-> "Some", val |-> res.node.val]
    ELSE [tag |-> "None"]

ValueSuggestion(pii_kind, rule, cfg) ==
    [tag |-> "Value", pii_kind |-> pii_kind, name |-> rule, config |-> cfg]
KeySuggestion(pii_kind, k, cfg) ==
    [tag |-> "Key", pii_kind |-> pii_kind, name |-> k, config |-> cfg]

Return(tag, msg) == [tag |-> tag, msg |-> msg]

resolve_in(r, pth) == IF r.ok THEN get_value_by_path(r.tree, pth) ELSE None

\* lines 115-116 with the failure swallowed instead of returned
baseline_outcome_absorbing(r, res) ==
    [result |-> r,
     ret |-> IF res.tag = "Panic" THEN Return("Panic", "resolve")
             ELSE Return("none", ""),
     old_value |-> observed(res)]

\* lines 115-116: `?` returns the strip's failure; otherwise the observed
\* value at `path`
baseline_outcome(r, res) ==
    [result |-> r,
     ret |-> IF ~r.ok THEN Return("Err", "strip")
             ELSE IF res.tag = "Panic" THEN Return("Panic", "resolve")
             ELSE Return("none", ""),
     old_value |-> observed(res)]

baseline_resolve(r, pth) == baseline_outcome(r, resolve_in(r, pth))

baseline_step(p, text, ev, pth) == baseline_resolve(strip_event(p, text, ev), pth)

\* line 165 with the comparison inverted
values_differ_inverted(new_value, old) == new_value = old

\* line 165: new_value != old_value
values_differ(new_value, old) == new_value # old

\* lines 158-170 with the candidate's strip failure returned by `?`
candidate_outcome_propagating(new_config, r, new_res, old) ==
    [ret |-> IF ~r.ok THEN Return("Err", "strip")
             ELSE IF new_res.tag = "Panic" THEN Return("Panic", "resolve")
             ELSE Return("none", ""),
     invoked |-> 1,
     stripped |-> r.ok,
     new_res |-> new_res,
     accept |-> r.ok /\ new_res.tag # "Panic"
                     /\ values_differ(observed(new_res), old),
     config |-> new_config]

\* lines 158-170: a strip failure gives Ok(None); otherwise the value at
\* `path` is compared with the baseline's
candidate_outcome(new_config, r, new_res, old) ==
    [ret |-> IF r.ok /\ new_res.tag = "Panic"
             THEN Return("Panic", "resolve") ELSE Return("none", ""),
     invoked |-> 1,
     stripped |-> r.ok,
     new_res |-> new_res,
     accept |-> r.ok /\ new_res.tag # "Panic"
                     /\ values_differ(observed(new_res), old),
     config |-> new_config]

candidate_resolve(new_config, r, pth, old) ==
    candidate_outcome(new_config, r, resolve_in(r, pth), old)

candidate_strip(p, ev, pth, old, new_config) ==
    candidate_resolve(new_config, strip_event(p, new_config, ev), pth, old)

\* lines 156-171: serialize, strip, resolve, compare
rule_does_something(p, ev, pth, old, new_doc) ==
    candidate_strip(p, ev, pth, old, to_string_pretty(new_doc))

\* rv.push(..) that skips an entry whose config text is already listed
push_dedup(list, s) ==
    IF \E i \in 1..Len(list) : list[i].config = s.config THEN list
    ELSE Append(list, s)

\* lines 179 and 210: rv.push(..)
push(list, s) == Append(list, s)

\* the key phase entered whatever the key
key_phase_runs_always(k) == TRUE

\* line 189: if !key.is_empty()
key_phase_runs(k) == k # <<>>

\* the key taken before the first '.'
key_of_path_first(pth) == splitn2(pth)[1]

\* line 188: path.rsplitn(2, '.').next()
key_of_path(pth) == rsplitn2_first(pth)

NoCandidate ==
    [phase |-> "none", rule |-> <<>>, pii_kind |-> "", spliced |-> FALSE,
     stripped |-> FALSE, new_res |-> None, pushed |-> FALSE]

\* the baseline's node at `path`, as get_value_by_path(&old_result, path)
old_res == get_value_by_path(old_result.tree, path)

BaselineBody(b) ==
    /\ old_result' = b.result
    /\ old_value' = b.old_value
    /\ calls' = calls + 1
    /\ ret' = b.ret
    /\ pc' = IF b.ret.tag = "none" THEN "parse" ELSE "done"

\* lines 115-116
Baseline ==
    /\ pc = "start"
    /\ BaselineBody(baseline_step(proc, config, event, path))
    /\ UNCHANGED demo_vars
    /\ UNCHANGED <<root, rpath, rresult, rpc, proc, event, config, path,
                   parsed_config, rules, rv, ri, ki, key_config, key, log,
                   last>>

\* lines 118-134: the structural document and the rule candidates
ParseStructural ==
    /\ pc = "parse"
    /\ IF ~config.wf THEN
            /\ ret' = Return("Err", "json")
            /\ pc' = "done"
            /\ UNCHANGED <<parsed_config, rules>>
       ELSE IF config.json.kind # "obj" THEN
            /\ ret' = Return("Panic", "Bad PII config")
            /\ pc' = "done"
            /\ UNCHANGED <<parsed_config, rules>>
       ELSE
            /\ parsed_config' = config.json.m
            /\ rules' = BUILTIN_RULES \o user_rule_names(config.json.m)
            /\ pc' = "value"
            /\ UNCHANGED ret
    /\ UNCHANGED demo_vars
    /\ UNCHANGED <<root, rpath, rresult, rpc, proc, event, config, path,
                   old_result, old_value, rv, ri, ki, key_config, key,
                   calls, log, last>>

\* the body of both candidate loops (lines 175-184 and 206-215): splice
\* (`?` returns its failure), evaluate, push on acceptance
CandidateBody(phase, rule, pii_kind, spliced, c, suggestion) ==
    IF ~spliced.ok THEN
        /\ ret' = Return("Err", spliced.msg)
        /\ pc' = "done"
        /\ last' = [NoCandidate EXCEPT !.phase = phase, !.rule = rule,
                       !.pii_kind = pii_kind]
        /\ UNCHANGED <<rv, calls, log>>
    ELSE
        /\ calls' = calls + c.invoked
        /\ last' = [phase |-> phase, rule |-> rule, pii_kind |-> pii_kind,
                    spliced |-> TRUE, stripped |-> c.stripped,
                    new_res |-> c.new_res,
                    pushed |-> c.ret.tag = "none" /\ c.accept]
        /\ IF c.ret.tag # "none" THEN
                /\ ret' = c.ret
                /\ pc' = "done"
                /\ UNCHANGED <<rv, log>>
           ELSE
                /\ rv' = IF c.accept THEN push(rv, suggestion) ELSE rv
                /\ log' = Append(log, c.accept)
                /\ IF phase = "key" /\ ki = Len(PII_KINDS)
                   THEN ret' = Return("Ok", "") /\ pc' = "done"
                   ELSE UNCHANGED <<ret, pc>>

Candidate(phase, rule, pii_kind, spliced) ==
    CandidateBody(phase, rule, pii_kind, spliced,
        rule_does_something(proc, event, path, old_value, spliced.v),
        IF phase = "value"
        THEN ValueSuggestion(pii_kind, rule, to_string_pretty(spliced.v))
        ELSE KeySuggestion(pii_kind, key, to_string_pretty(spliced.v)))

\* lines 173-186: one iteration of the loops over rules and PII kinds
ValueCandidate ==
    /\ pc = "value"
    /\ ri <= Len(rules)
    /\ Candidate("value", rules[ri], PII_KINDS[ki],
                 add_rule_to_pii_kind(parsed_config, PII_KINDS[ki], rules[ri]))
    /\ ki' = IF pc' = "done" THEN ki
             ELSE IF ki < Len(PII_KINDS) THEN ki + 1 ELSE 1
    /\ ri' = IF pc' = "done" \/ ki < Len(PII_KINDS) THEN ri ELSE ri + 1
    /\ UNCHANGED demo_vars
    /\ UNCHANGED <<root, rpath, rresult, rpc, proc, event, config, path,
                   old_result, old_value, parsed_config, rules, key_config,
                   key>>

KeyPrepareBody(k, defined) ==
    /\ key' = k
    /\ IF ~key_phase_runs(k) THEN
            /\ ret' = Return("Ok", "")
            /\ pc' = "done"
            /\ UNCHANGED key_config
       ELSE IF ~defined.ok THEN
            /\ ret' = Return("Err", defined.msg)
            /\ pc' = "done"
            /\ UNCHANGED key_config
       ELSE
            /\ key_config' = defined.v
            /\ pc' = "key"
            /\ UNCHANGED ret

\* lines 188-203: the key after the last '.', and the clone that defines
\* the synthetic rule
KeyPrepare ==
    /\ pc = "value"
    /\ ri > Len(rules)
    /\ KeyPrepareBody(key_of_path(path),
                      define_key_rule(parsed_config, key_of_path(path)))
    /\ ki' = 1
    /\ UNCHANGED demo_vars
    /\ UNCHANGED <<root, rpath, rresult, rpc, proc, event, config, path,
                   old_result, old_value, parsed_config, rules, rv, ri,
                   calls, log, last>>

\* lines 205-220: one iteration of the loop over PII kinds, and the return
KeyCandidate ==
    /\ pc = "key"
    /\ Candidate("key", key_rule_name(key), PII_KINDS[ki],
                 add_rule_to_pii_kind(key_config, PII_KINDS[ki],
                                      key_rule_name(key)))
    /\ ki' = IF pc' = "done" THEN ki ELSE ki + 1
    /\ UNCHANGED demo_vars
    /\ UNCHANGED <<root, rpath, rresult, rpc, proc, event, config, path,
                   old_result, old_value, parsed_config, rules, ri,
                   key_config, key>>

----------------------------------------------------------------------------
(* Inputs *)

Str1(c) == <<c>>

PatternRule == JObj("type" :> JStr(<<"pattern">>))

\* DEFAULT_EVENT, with its names shortened: message -> m, extra -> x,
\* foo -> f, and two of the four array items
DefaultEvent ==
    EventNode(MapValue(
        (<<"m">> :> EventNode(StrValue(<<"card">>), "freeform")) @@
        (<<"x">> :> EventNode(MapValue(
            <<"f">> :> EventNode(ArrayValue(
                <<EventNode(StrValue(<<"1">>), "databag"),
                  EventNode(StrValue(<<"127.0.0.1">>), "databag")>>),
                "databag")), "databag"))), "none")

EventSet == {DefaultEvent}

ConfigEmpty == Text(JObj(EmptyMap), "compact")
\* DEFAULT_CONFIG
ConfigDefault == Text(JObj("rules" :> JObj(<<"device_id">> :> PatternRule)), "pretty")
\* a user rule that carries a built-in rule's name
ConfigShadow ==
    Text(JObj("rules" :> JObj((<<"@ip:replace">> :> PatternRule) @@
                              (<<"device_id">> :> PatternRule))), "compact")
\* references already applied
ConfigApplied ==
    Text(JObj(("rules" :> JObj(<<"device_id">> :> PatternRule)) @@
              ("applications" :> JObj(
                  ("freeform" :> JArr(<<JStr(<<"@ip:replace">>)>>)) @@
                  ("databag" :> JArr(<<JStr(<<"@ip:hash">>),
                                       JStr(<<"@ip:replace">>)>>))))),
         "compact")
\* a user rule already applied, so that the baseline redacts "m"
ConfigRemoved ==
    Text(JObj(("rules" :> JObj(<<"device_id">> :> PatternRule)) @@
              ("applications" :> JObj("freeform" :> JArr(<<JStr(<<"device_id">>)>>)))),
         "pretty")
\* a rule with the name and the definition of the key phase's rule for "f"
ConfigKeyRule ==
    Text(JObj("rules" :> JObj(key_rule_name(<<"f">>) :> redact_pair_rule(<<"f">>))),
         "pretty")
ConfigUnknownRef ==
    Text(JObj("applications" :> JObj("freeform" :> JArr(<<JStr(<<"nope">>)>>))),
         "compact")
ConfigBadApplications == Text(JObj("applications" :> JNum), "compact")
ConfigBadKind == Text(JObj("applications" :> JObj("ip" :> JNum)), "compact")
ConfigBadRules == Text(JObj("rules" :> JNum), "compact")
ConfigArray == Text(JArr(<<>>), "compact")

WellShapedConfigs ==
    {ConfigEmpty, ConfigDefault, ConfigShadow, ConfigApplied, ConfigRemoved,
     ConfigKeyRule,
     ConfigUnknownRef, Garbage}
IllShapedConfigs ==
    {ConfigBadApplications, ConfigBadKind, ConfigBadRules, ConfigArray}
ConfigSet == WellShapedConfigs \cup IllShapedConfigs

SuggestPaths ==
    { <<>>, <<".">>, <<"m">>, <<"x">>, <<"x", ".", "f">>, <<"x", ".", "f", ".", "1">>,
      <<"x", ".", "f", ".", "9">>, <<"m", ".">>, <<"m", ".", "a">>,
      <<".", "m">>, <<"x", ".", "f", ".", "a">> }

\* A processor: whether it tolerates members of the wrong JSON type, the
\* built-in rules it does not know, the one built-in rule that matches
\* the event's strings and what it does to them, and what a user-defined
\* pattern rule does
ProcSet ==
    [lenient : BOOLEAN,
     unsupported : {{}, {<<"@mac:mask">>}},
     hot : {<<"@ip:replace">>},
     hot_effect : {"replace", "remark"},
     user_effect : {"remove"}]

\* State::Editing
Editing == [tag |-> "Editing", path |-> <<>>, suggestions |-> <<>>]

\* State::SelectPiiRule { request, suggestions }
SelectPiiRule(request, suggestions) ==
    [tag |-> "SelectPiiRule", path |-> request, suggestions |-> suggestions]

\* an event text that parses to the tree `tree`, and one that does not parse
EventText(tree) == [wf |-> TRUE, tree |-> tree]
BadEventText == [wf |-> FALSE, tree |-> EventNode(NoValue, "none")]

\* enum Msg
Msg(tag, value) == [tag |-> tag, value |-> value]

\* PiiDemo::create
create ==
    /\ self = [event |-> EventText(DefaultEvent), config |-> ConfigDefault,
               state |-> Editing]
    /\ should_render = "none"
    /\ message = Msg("none", <<>>)
    /\ accepted = 0

IdleResolve ==
    /\ root = Annotated(NoValue, Meta(<<>>, <<>>))
    /\ rpath = <<>>
    /\ rresult = None
    /\ rpc = "idle"

SuggestLocalsInit ==
    /\ old_result = StripFailed
    /\ old_value = [tag |-> "None"]
    /\ parsed_config = EmptyMap
    /\ rules = <<>>
    /\ rv = <<>>
    /\ ri = 1
    /\ ki = 1
    /\ key_config = EmptyMap
    /\ key = <<>>
    /\ ret = Return("none", "")
    /\ calls = 0
    /\ log = <<>>
    /\ last = NoCandidate

\* a request: a processor that tolerates ill-shaped members is paired with
\* the ill-shaped configs only (it treats the others as a strict one does)
Init ==
    /\ IdleResolve
    /\ proc \in ProcSet
    /\ event \in EventSet
    /\ config \in ConfigSet
    /\ (proc.lenient => config \in IllShapedConfigs)
    /\ path \in SuggestPaths
    /\ pc = "start"
    /\ SuggestLocalsInit
    /\ create

Next ==
    \/ Baseline
    \/ ParseStructural
    \/ ValueCandidate
    \/ KeyPrepare
    \/ KeyCandidate

Spec == Init /\ [][Next]_vars

----------------------------------------------------------------------------
(* One call of get_value_by_path on its own *)

PathAlphabet == {Dot, "a", "0", "1"}

\* 2^64, which overflows usize on any target
TwoTo64Digits ==
    <<"1", "8", "4", "4", "6", "7", "4", "4", "0", "7", "3", "7", "0", "9",
      "5", "5", "1", "6", "1", "6">>

\* array indices around and beyond usize::MAX
LongIndexPaths ==
    {UsizeMaxDigits, TwoTo64Digits, <<"a", Dot>> \o TwoTo64Digits}

PathSet ==
    UNION {[1..n -> PathAlphabet] : n \in 0..MaxPathLen} \cup LongIndexPaths

Leaf(s) == Annotated(StrValue(<<s>>), Meta(<<>>, <<>>))
Redacted == Annotated(NoValue, Meta(<<>>, <<Remark(<<"@ip:replace">>, "x")>>))

RootScalar == Leaf("p")
RootArray ==
    Annotated(ArrayValue(<<Leaf("p"), Annotated(MapValue(<<"a">> :> Leaf("q")),
                                                 Meta(<<>>, <<>>))>>),
              Meta(<<>>, <<>>))
RootMap ==
    Annotated(MapValue(
        (<<"a">> :> Annotated(ArrayValue(
                        <<Leaf("r"),
                          Annotated(MapValue((<<"a">> :> Leaf("s")) @@
                                             (<<"0">> :> Redacted)),
                                    Meta(<<>>, <<>>))>>),
                        Meta(<<>>, <<>>))) @@
        (<<"0">> :> Annotated(MapValue((<<"a">> :> Leaf("t")) @@
                                       (<<"1">> :> Leaf("u"))),
                              Meta(<<>>, <<>>))) @@
        (<<"1">> :> Leaf("v"))),
        Meta(<<>>, <<>>))

RootSet == {RootScalar, Redacted, RootArray, RootMap}

IdleSuggest ==
    /\ proc = [lenient |-> FALSE, unsupported |-> {}, hot |-> <<>>,
               hot_effect |-> "noop", user_effect |-> "noop"]
    /\ event = EventNode(NoValue, "none")
    /\ config = Garbage
    /\ path = <<>>
    /\ pc = "idle"
    /\ SuggestLocalsInit

InitResolve ==
    /\ root \in RootSet
    /\ rpath \in PathSet
    /\ rresult = None
    /\ rpc = "start"
    /\ IdleSuggest
    /\ create

Resolve ==
    /\ rpc = "start"
    /\ rresult' = get_value_by_path(root, rpath)
    /\ rpc' = "done"
    /\ UNCHANGED demo_vars
    /\ UNCHANGED <<root, rpath, proc, event, config, path, pc, old_result,
                   old_value, parsed_config, rules, rv, ri, ki, key_config,
                   key, ret, calls, log, last>>

NextResolve == Resolve

SpecResolve == InitResolve /\ [][NextResolve]_vars

\* most suggestions accepted in one run of the component
MaxAccepted == 1

\* the suggestions of a list a run clicks on: its first and its last
AcceptChoices(list) == {1, Len(list)} \cap (1..Len(list))

\* an event without the "m" field
OtherEvent ==
    EventNode(MapValue(
        <<"x">> :> EventNode(MapValue(
            <<"f">> :> EventNode(ArrayValue(
                <<EventNode(StrValue(<<"1">>), "databag"),
                  EventNode(StrValue(<<"127.0.0.1">>), "databag")>>),
                "databag")), "databag")), "none")

DemoEventSet == {EventText(DefaultEvent), EventText(OtherEvent), BadEventText}

DemoConfigSet == {ConfigEmpty, ConfigDefault, ConfigUnknownRef}

DemoPathSet ==
    { <<"m">>, <<"x", ".", "f", ".", "1">>, <<"x", ".", "f", ".", "a">> }

\* a strict processor that knows every built-in rule and replaces what
\* "@ip:replace" matches
DemoProcSet ==
    {p \in ProcSet :
        ~p.lenient /\ p.unsupported = {} /\ p.hot_effect = "replace"}
----------------------------------------------------------------------------
(* get_rule_suggestions_for_value as one function, for the callers that    *)
(* run it to its end: Search is the Result it returns                      *)

Search(r, list) == [ret |-> r, rv |-> list]

\* the arguments and locals both loops share
SearchFrame(p, ev, pth, old, doc, phase, names, k) ==
    [p |-> p, ev |-> ev, pth |-> pth, old |-> old, doc |-> doc,
     phase |-> phase, names |-> names, k |-> k]

loop_rule(q, i) == q.names[((i - 1) \div Len(PII_KINDS)) + 1]
loop_pii_kind(i) == PII_KINDS[((i - 1) % Len(PII_KINDS)) + 1]

\* lines 179-183 and 210-214
suggestion_for(q, i, cfg) ==
    IF q.phase = "value"
    THEN ValueSuggestion(loop_pii_kind(i), loop_rule(q, i), cfg)
    ELSE KeySuggestion(loop_pii_kind(i), q.k, cfg)

\* lines 178-184 and 209-215: what one iteration adds to rv
candidate_evaluated(q, i, c) ==
    [ret |-> c.ret,
     accept |-> c.ret.tag = "none" /\ c.accept,
     suggestion |-> suggestion_for(q, i, c.config)]

\* lines 175-176 and 206-207
candidate_spliced(q, i, spliced) ==
    IF ~spliced.ok
    THEN [ret |-> Return("Err", spliced.msg), accept |-> FALSE,
          suggestion |-> suggestion_for(q, i, Garbage)]
    ELSE candidate_evaluated(q, i,
            rule_does_something(q.p, q.ev, q.pth, q.old, spliced.v))

\* the body of the loops for the i-th pair of rule and PII kind; every
\* iteration starts from a clone of q.doc
candidate_at(q, i) ==
    candidate_spliced(q, i,
        add_rule_to_pii_kind(q.doc, loop_pii_kind(i), loop_rule(q, i)))

\* the iterations that leave the function (`?` or a panic)
Leaving(outs) == {i \in 1..Len(outs) : outs[i].ret.tag # "none"}

FirstLeaving(outs) ==
    CHOOSE i \in Leaving(outs) : \A j \in Leaving(outs) : i <= j

\* the iterations whose candidate was accepted, in the loops' order
Accepted(outs) == SelectSeq(outs, LAMBDA o : o.accept)

suggestions_of(outs) == [j \in 1..Len(outs) |-> outs[j].suggestion]

\* lines 179 and 210: rv.push(..) once for every accepted iteration
push_all(acc, outs) == acc \o suggestions_of(Accepted(outs))

loop_end(outs, acc) ==
    IF Leaving(outs) # {} THEN Search(outs[FirstLeaving(outs)].ret, <<>>)
    ELSE Search(Return("none", ""), push_all(acc, outs))

\* lines 173-186 and 205-216: the loops over q.names and PII_KINDS
candidates(q, acc) ==
    loop_end([i \in 1..(Len(q.names) * Len(PII_KINDS)) |-> candidate_at(q, i)],
             acc)

\* line 220
search_end(r) ==
    IF r.ret.tag = "none" THEN Search(Return("Ok", ""), r.rv) ELSE r

\* lines 188-220
key_search(p, ev, pth, old, k, acc, defined) ==
    IF ~key_phase_runs(k) THEN Search(Return("Ok", ""), acc)
    ELSE IF ~defined.ok THEN Search(Return("Err", defined.msg), <<>>)
    ELSE search_end(candidates(
            SearchFrame(p, ev, pth, old, defined.v, "key",
                        <<key_rule_name(k)>>, k), acc))

value_search_end(p, ev, pth, old, doc, r) ==
    IF r.ret.tag # "none" THEN r
    ELSE key_search(p, ev, pth, old, key_of_path(pth), r.rv,
                    define_key_rule(doc, key_of_path(pth)))

\* lines 118-186
value_search(p, ev, text, pth, old) ==
    IF ~text.wf THEN Search(Return("Err", "json"), <<>>)
    ELSE IF text.json.kind # "obj"
    THEN Search(Return("Panic", "Bad PII config"), <<>>)
    ELSE value_search_end(p, ev, pth, old, text.json.m,
            candidates(
                SearchFrame(p, ev, pth, old, text.json.m, "value",
                            BUILTIN_RULES \o user_rule_names(text.json.m),
                            <<>>), <<>>))

baseline_end(p, ev, text, pth, b) ==
    IF b.ret.tag # "none" THEN Search(b.ret, <<>>)
    ELSE value_search(p, ev, text, pth, b.old_value)

\* lines 110-221
get_rule_suggestions_for_value(p, ev, text, pth) ==
    baseline_end(p, ev, text, pth, baseline_step(p, text, ev, pth))

----------------------------------------------------------------------------
(* PiiDemo *)

\* the outcome of get_suggestions: the list, or a web_panic!
Suggestions(list) == [panicked |-> FALSE, list |-> list]
Panicked == [panicked |-> TRUE, list |-> <<>>]

\* lines 355-357: unwrap_or_else(|e| web_panic!(..))
unwrap_search(r) == IF r.ret.tag = "Ok" THEN Suggestions(r.rv) ELSE Panicked

\* PiiRulesRequest::get_suggestions
get_suggestions(p, request, pii_demo) ==
    IF ~pii_demo.event.wf THEN Panicked
    ELSE unwrap_search(get_rule_suggestions_for_value(
            p, pii_demo.event.tree, pii_demo.config, request))

\* update() with an EventInputChanged that leaves the state as it is
EventInputChanged_keeping_state(s, value) == [s EXCEPT !.event = value]

\* lines 392-395
PiiConfigChanged(s, value) ==
    [s EXCEPT !.config = value, !.state = Editing]

\* lines 396-399
EventInputChanged(s, value) ==
    [s EXCEPT !.event = value, !.state = Editing]

\* lines 400-406, given what get_suggestions came to: a panic leaves the
\* struct as it was
select_pii_rule(s, request, got) ==
    IF got.panicked THEN s
    ELSE [s EXCEPT !.state = SelectPiiRule(request, got.list)]

\* lines 407-412
StartEditing(s) == [s EXCEPT !.state = Editing]

\* what update() returns (lines 409 and 415)
ShouldRender(s, m) ==
    IF m.tag = "StartEditing" /\ s.state = Editing THEN "false" ELSE "true"

Handled(m, next_self, rendered) ==
    /\ message' = m
    /\ self' = next_self
    /\ should_render' = rendered

\* the config textarea's oninput (line 467)
ConfigInput ==
    /\ rpc = "demo"
    /\ \E value \in DemoConfigSet :
        Handled(Msg("PiiConfigChanged", value),
                PiiConfigChanged(self, value), "true")
    /\ UNCHANGED accepted
    /\ UNCHANGED <<root, rpath, rresult, rpc, proc, event, config, path, pc,
                   old_result, old_value, parsed_config, rules, rv, ri, ki,
                   key_config, key, ret, calls, log, last>>

\* a click on one of the listed suggestions (lines 305-311)
AcceptSuggestion ==
    /\ rpc = "demo"
    /\ accepted < MaxAccepted
    /\ self.state.tag = "SelectPiiRule"
    /\ \E i \in AcceptChoices(self.state.suggestions) :
        Handled(Msg("PiiConfigChanged", self.state.suggestions[i].config),
                PiiConfigChanged(self, self.state.suggestions[i].config),
                "true")
    /\ accepted' = accepted + 1
    /\ UNCHANGED <<root, rpath, rresult, rpc, proc, event, config, path, pc,
                   old_result, old_value, parsed_config, rules, rv, ri, ki,
                   key_config, key, ret, calls, log, last>>

\* the event textarea's oninput (line 442)
EventInput ==
    /\ rpc = "demo"
    /\ \E value \in DemoEventSet :
        Handled(Msg("EventInputChanged", value),
                EventInputChanged(self, value), "true")
    /\ UNCHANGED accepted
    /\ UNCHANGED <<root, rpath, rresult, rpc, proc, event, config, path, pc,
                   old_result, old_value, parsed_config, rules, rv, ri, ki,
                   key_config, key, ret, calls, log, last>>

SelectBody(request, got) ==
    Handled(Msg("SelectPiiRule", request),
            select_pii_rule(self, request, got),
            IF got.panicked THEN "panic" ELSE "true")

\* a click on a value of the stripped event (lines 515 and 530)
Select ==
    /\ rpc = "demo"
    /\ \E request \in DemoPathSet :
        SelectBody(request, get_suggestions(proc, request, self))
    /\ UNCHANGED accepted
    /\ UNCHANGED <<root, rpath, rresult, rpc, proc, event, config, path, pc,
                   old_result, old_value, parsed_config, rules, rv, ri, ki,
                   key_config, key, ret, calls, log, last>>

\* a click or focus outside the suggestions (lines 431-466)
StartEdit ==
    /\ rpc = "demo"
    /\ Handled(Msg("StartEditing", <<>>),
               IF self.state = Editing THEN self ELSE StartEditing(self),
               ShouldRender(self, Msg("StartEditing", <<>>)))
    /\ UNCHANGED accepted
    /\ UNCHANGED <<root, rpath, rresult, rpc, proc, event, config, path, pc,
                   old_result, old_value, parsed_config, rules, rv, ri, ki,
                   key_config, key, ret, calls, log, last>>

InitDemo ==
    /\ root = Annotated(NoValue, Meta(<<>>, <<>>))
    /\ rpath = <<>>
    /\ rresult = None
    /\ rpc = "demo"
    /\ proc \in DemoProcSet
    /\ event = EventNode(NoValue, "none")
    /\ config = Garbage
    /\ path = <<>>
    /\ pc = "idle"
    /\ SuggestLocalsInit
    /\ create

NextDemo ==
    \/ ConfigInput
    \/ AcceptSuggestion
    \/ EventInput
    \/ Select
    \/ StartEdit

SpecDemo == InitDemo /\ [][NextDemo]_vars

----------------------------------------------------------------------------
(* Properties of get_value_by_path *)

\* p split at every '.'
RECURSIVE Segments(_)
Segments(p) ==
    IF FirstDot(p) = 0 THEN <<p>>
    ELSE <<SubSeq(p, 1, FirstDot(p) - 1)>>
         \o Segments(SubSeq(p, FirstDot(p) + 1, Len(p)))

\* a non-empty path of non-empty segments
WellFormed(p) ==
    /\ p # <<>>
    /\ \A i \in 1..Len(Segments(p)) : Segments(p)[i] # <<>>

IsNonNegativeInteger(seg) ==
    seg # <<>> /\ \A i \in 1..Len(seg) : seg[i] \in Digits

\* What stops a walk along the segments from position i on: the end of the
\* path ("found"; a path may end in one or two empty segments), a fault, or
\* the reason there is nothing to find.
RECURSIVE WalkEnd(_, _, _)
WalkEnd(node, segs, i) ==
    IF \/ i > Len(segs)
       \/ SubSeq(segs, i, Len(segs)) \in {<< <<>> >>, << <<>>, <<>> >>}
    THEN "found"
    ELSE IF segs[i] = <<>> THEN "fault: empty segment"
    ELSE IF node.val.kind = "arr" THEN
        IF ~IsNonNegativeInteger(segs[i]) THEN "fault: array index"
        ELSE IF IndexValue(StripLeadingZeros(segs[i])) >= Len(node.val.items)
             THEN "none: index out of range"
        ELSE WalkEnd(node.val.items[IndexValue(StripLeadingZeros(segs[i])) + 1],
                     segs, i + 1)
    ELSE IF node.val.kind = "map" THEN
        IF segs[i] \notin DOMAIN node.val.m THEN "none: key absent"
        ELSE WalkEnd(node.val.m[segs[i]], segs, i + 1)
    ELSE "none: not a container"

Faults == {"fault: empty segment", "fault: array index"}
Misses ==
    {"none: index out of range", "none: key absent", "none: not a container"}

ComposesAt(d) ==
    (/\ rpath[d] = Dot
     /\ WellFormed(SubSeq(rpath, 1, d - 1))
     /\ WellFormed(SubSeq(rpath, d + 1, Len(rpath)))
     /\ get_value_by_path(root, SubSeq(rpath, 1, d - 1)).tag = "Some")
    => rresult = get_value_by_path(
                    get_value_by_path(root, SubSeq(rpath, 1, d - 1)).node,
                    SubSeq(rpath, d + 1, Len(rpath)))

\* C7: resolution composes.  For every split of the path a + "." + b into
\* non-empty well-formed a and b with resolve(root, a) defined,
\* resolve(root, a.b) = resolve(resolve(root, a), b); and the empty path
\* and the path "." give the root itself.
C7_Composition ==
    rpc = "done" =>
        /\ (rpath = <<>> \/ rpath = <<Dot>>) => rresult = Some(root)
        /\ \A d \in 1..Len(rpath) : ComposesAt(d)

\* a two-step path that resolves through a defined first step to a node
C7_Witness ==
    /\ rpc = "done"
    /\ rresult.tag = "Some"
    /\ \E d \in 1..Len(rpath) :
        /\ rpath[d] = Dot
        /\ WellFormed(SubSeq(rpath, 1, d - 1))
        /\ WellFormed(SubSeq(rpath, d + 1, Len(rpath)))
        /\ get_value_by_path(root, SubSeq(rpath, 1, d - 1)).tag = "Some"
        /\ rresult.node # root

\* C8: the resolver faults only on an empty segment or on a segment that
\* addresses an Array and is no non-negative integer; otherwise it returns
\* None exactly when a step meets an out-of-range index, an absent key, or
\* a node that is absent or neither Array nor Map (whatever the segment).
C8_FaultsAndMisses ==
    rpc = "done" =>
        /\ rresult.tag = "Panic"
            <=> WalkEnd(root, Segments(rpath), 1) \in Faults
        /\ rresult.tag = "None"
            <=> WalkEnd(root, Segments(rpath), 1) \in Misses
        /\ WalkEnd(root, Segments(rpath), 1) = "fault: empty segment"
            => \E i \in 1..Len(Segments(rpath)) : Segments(rpath)[i] = <<>>

\* every index the path writes fits usize
IndicesFitUsize(p) ==
    \A i \in 1..Len(Segments(p)) :
        IsNonNegativeInteger(Segments(p)[i])
            => ~ExceedsUsize(StripLeadingZeros(Segments(p)[i]))

\* C8 within usize: the statement of C8 holds of every path whose indices
\* fit usize.
C8_WithinUsize == IndicesFitUsize(rpath) => C8_FaultsAndMisses

\* a non-integer segment addressed at a scalar gives None
C8_Witness ==
    /\ rpc = "done"
    /\ root = RootMap
    /\ rpath = <<"1", Dot, "a">>
    /\ rresult = None

\* an index of 2^64 addressed at an Array: the resolver faults
C8_OverflowWitness ==
    /\ rpc = "done"
    /\ root = RootArray
    /\ rpath = TwoTo64Digits
    /\ rresult = Panic

----------------------------------------------------------------------------
(* Properties of get_rule_suggestions_for_value *)

SpliceErrors ==
    {"Bad applications value", "Bad PII kind value", "Bad rules value"}

\* the structural parse of line 118 has succeeded
Parsed == rules # <<>>

\* candidates a complete request evaluates: one per rule and PII kind, and
\* one per PII kind when the key phase runs
CandidateCount(keyed) ==
    Len(rules) * Len(PII_KINDS) + (IF keyed THEN Len(PII_KINDS) ELSE 0)

\* the last segment of the path split at every '.'
TextAfterLastDot(p) == Segments(p)[Len(Segments(p))]

\* the function get_rule_suggestions_for_value returns what the loops of
\* Spec have computed when they end
SearchAgrees ==
    pc = "done" =>
        get_rule_suggestions_for_value(proc, event, config, path)
            = Search(ret, IF ret.tag = "Ok" THEN rv ELSE <<>>)

\* C1 as stated: a failure in any step of a candidate (splice, serialize,
\* parseConfig, strip) is absorbed, so that once the baseline strip and the
\* structural parse have succeeded the request never returns an error.
C1_NoErrorAfterBaseline ==
    /\ (old_result.ok /\ Parsed) => ret.tag # "Err"
    /\ (last.phase # "none" /\ (~last.spliced \/ ~last.stripped))
            => ret.tag # "Err"

\* C1 amended: a candidate whose parseConfig or strip fails is dropped
\* without an error and the candidates after it are still evaluated; after
\* a successful baseline and structural parse the only errors returned are
\* the splice errors ("Bad applications value", "Bad PII kind value",
\* "Bad rules value"), which abort the request.
C1_OnlySpliceErrors ==
    /\ (last.phase # "none" /\ last.spliced /\ ~last.stripped)
            => (~last.pushed /\ ret.tag \in {"none", "Ok"})
    /\ (old_result.ok /\ Parsed /\ ret.tag = "Err")
            => /\ ret.msg \in SpliceErrors
               /\ pc = "done"
               /\ (ret.msg = "Bad rules value" \/ ~last.spliced)
    /\ (pc = "done" /\ ret.tag = "Ok")
            => Len(log) = CandidateCount(key # <<>>)

\* the processor refuses a candidate ("@mac:mask" is unknown to it): the
\* candidate is dropped and the search goes on
C1_Witness ==
    /\ pc = "value"
    /\ last.phase = "value"
    /\ last.rule = <<"@mac:mask">>
    /\ last.spliced
    /\ ~last.stripped
    /\ ~last.pushed
    /\ ret.tag = "none"
    /\ rv # <<>>

\* C2: a failed baseline strip ends the request with an error, an empty
\* list and no candidate evaluated; nothing is evaluated before the
\* baseline strip.
C2_BaselineFailureAborts ==
    /\ pc = "start"
            => (calls = 0 /\ log = <<>> /\ rv = <<>> /\ last.phase = "none")
    /\ (pc # "start" /\ ~old_result.ok)
            => /\ pc = "done"
               /\ ret.tag = "Err"
               /\ rv = <<>>
               /\ calls = 1
               /\ log = <<>>
               /\ last.phase = "none"
    /\ (log # <<>> \/ last.phase # "none") => old_result.ok

\* the processor fails on a baseline config that is JSON (it references an
\* unknown rule)
C2_Witness ==
    /\ pc = "done"
    /\ config = ConfigUnknownRef
    /\ ~old_result.ok
    /\ ret.tag = "Err"

\* the i-th candidate in enumeration order: rule-major over `rules`, then
\* the key candidates
EnumeratedTag(i) == IF i <= Len(rules) * Len(PII_KINDS) THEN "Value" ELSE "Key"
EnumeratedKind(i) == PII_KINDS[((i - 1) % Len(PII_KINDS)) + 1]
EnumeratedName(i) ==
    IF i <= Len(rules) * Len(PII_KINDS)
    THEN rules[((i - 1) \div Len(PII_KINDS)) + 1]
    ELSE TextAfterLastDot(path)

AcceptedIndices == SelectSeq([i \in 1..Len(log) |-> i], LAMBDA i : log[i])

\* C3: the list is the accepted candidates in enumeration order, one entry
\* each: value suggestions rule-major (built-in rules, then the baseline's
\* rule names) and by PII kind within a rule, then key suggestions by PII
\* kind; nothing is reordered or dropped as a duplicate.
C3_EnumerationOrder ==
    /\ Len(rv) = Len(AcceptedIndices)
    /\ \A j \in 1..Len(rv) :
        /\ rv[j].tag = EnumeratedTag(AcceptedIndices[j])
        /\ rv[j].pii_kind = EnumeratedKind(AcceptedIndices[j])
        /\ rv[j].name = EnumeratedName(AcceptedIndices[j])
    /\ Parsed =>
        /\ SubSeq(rules, 1, Len(BUILTIN_RULES)) = BUILTIN_RULES
        /\ \A i \in (Len(BUILTIN_RULES) + 1)..Len(rules) :
            rules[i] \in DOMAIN config.json.m["rules"].m

\* two candidates with the same config text (a user rule named like a
\* built-in one) are both listed, and key suggestions follow
C3_Witness ==
    /\ pc = "done"
    /\ ret.tag = "Ok"
    /\ \E i, j \in 1..Len(rv) : i < j /\ rv[i] = rv[j]
    /\ rv[Len(rv)].tag = "Key"

\* C4: a candidate is listed iff its strip succeeds and the value observed
\* at `path` differs from the baseline's; a path that resolves to nothing
\* in both gives no suggestion.
C4_SuggestionIffValueDiffers ==
    (last.phase # "none" /\ last.spliced) =>
        /\ last.pushed <=>
            /\ last.stripped
            /\ last.new_res.tag # "Panic"
            /\ observed(last.new_res) # observed(old_res)
        /\ last.pushed =>
            /\ rv # <<>>
            /\ rv[Len(rv)].pii_kind = last.pii_kind
            /\ rv[Len(rv)].tag = (IF last.phase = "value" THEN "Value" ELSE "Key")
        /\ (old_res.tag = "None" /\ last.new_res.tag = "None") => ~last.pushed

\* index 9 is out of range in the baseline and in a candidate that does
\* change the array's items: no suggestion
C4_Witness ==
    /\ path = <<"x", ".", "f", ".", "9">>
    /\ proc.hot_effect = "replace"
    /\ last.rule = <<"@ip:replace">>
    /\ last.pii_kind = "databag"
    /\ last.stripped
    /\ last.new_res.tag = "None"
    /\ old_value.tag = "None"
    /\ ~last.pushed

\* a node with every annotation below and on it removed
RECURSIVE RawValue(_)
RawValue(a) ==
    IF a.val.kind = "arr"
    THEN ArrayValue([i \in 1..Len(a.val.items) |-> RawValue(a.val.items[i])])
    ELSE IF a.val.kind = "map"
    THEN MapValue([c \in DOMAIN a.val.m |-> RawValue(a.val.m[c])])
    ELSE a.val

\* C5: a candidate whose result at `path` has the baseline's value and
\* differs from it only in annotations, on the node or below it, gives no
\* suggestion.
C5_AnnotationsIgnored ==
    (/\ last.phase # "none"
     /\ last.stripped
     /\ last.new_res.tag = "Some"
     /\ old_res.tag = "Some"
     /\ RawValue(last.new_res.node) = RawValue(old_res.node))
    => ~last.pushed

\* C5 for the addressed node: a candidate whose node at `path` has the
\* baseline's value and differs only in the node's own annotations gives
\* no suggestion.
C5_OwnAnnotationsIgnored ==
    (/\ last.phase # "none"
     /\ last.stripped
     /\ last.new_res.tag = "Some"
     /\ old_res.tag = "Some"
     /\ last.new_res.node.val = old_res.node.val)
    => ~last.pushed

C5_OwnAnnotationsWitness ==
    /\ last.phase # "none"
    /\ last.stripped
    /\ last.new_res.tag = "Some"
    /\ old_res.tag = "Some"
    /\ last.new_res.node.val = old_res.node.val
    /\ last.new_res.node.meta # old_res.node.meta

\* a remark below the addressed node, and nothing else, makes a suggestion
C5_Witness ==
    /\ path = <<"x">>
    /\ last.phase = "value"
    /\ last.stripped
    /\ last.new_res.tag = "Some"
    /\ old_res.tag = "Some"
    /\ RawValue(last.new_res.node) = RawValue(old_res.node)
    /\ last.new_res.node.meta = old_res.node.meta
    /\ last.pushed

KeyEntries == {j \in 1..Len(rv) : rv[j].tag = "Key"}

\* C6: when the text after the last '.' of `path` is empty the key phase is
\* skipped: no KeySuggestion and no key candidate; otherwise every
\* KeySuggestion carries that text as its key and its config defines
\* "remove_all_<key>_keys" as {type: redactPair, keyPattern: <key>}.
C6_KeyPhase ==
    /\ TextAfterLastDot(path) = <<>>
            => /\ KeyEntries = {}
               /\ pc # "key"
               /\ last.phase # "key"
               /\ (pc = "done" /\ ret.tag = "Ok") => Len(log) = CandidateCount(FALSE)
    /\ \A j \in KeyEntries :
        /\ rv[j].name = TextAfterLastDot(path)
        /\ rv[j].name # <<>>
        /\ rv[j].config.wf
        /\ rv[j].config.json.kind = "obj"
        /\ rv[j].config.json.m["rules"].kind = "obj"
        /\ key_rule_name(rv[j].name) \in DOMAIN rv[j].config.json.m["rules"].m
        /\ rv[j].config.json.m["rules"].m[key_rule_name(rv[j].name)]
                = JObj(("type" :> JStr(<<"redactPair">>))
                       @@ ("keyPattern" :> JStr(rv[j].name)))
    /\ (pc = "done" /\ ret.tag = "Ok" /\ TextAfterLastDot(path) # <<>>)
            => Len(log) = CandidateCount(TRUE)

\* a path with a trailing dot: value suggestions only
C6_Witness ==
    /\ path = <<"m", ".">>
    /\ pc = "done"
    /\ ret.tag = "Ok"
    /\ rv # <<>>
    /\ KeyEntries = {}

\* a path with a key: key suggestions carrying it
C6_KeyWitness ==
    /\ path = <<"x", ".", "f">>
    /\ pc = "done"
    /\ ret.tag = "Ok"
    /\ KeyEntries # {}

\* C9 as stated: a request performs exactly |rules| * |kinds| + |kinds|
\* processor invocations, whatever the event, the config and the path.
C9_InvocationCount ==
    (pc = "done" /\ ret.tag = "Ok") => calls = Len(rules) * Len(PII_KINDS) + Len(PII_KINDS)

\* C9 amended: a request that returns a list has performed the baseline
\* invocation, one per rule and PII kind, and one per PII kind only when the
\* text after the last '.' of the path is not empty; a request that returns
\* an error has performed fewer.
C9_InvocationCountWithBaseline ==
    /\ (pc = "done" /\ ret.tag = "Ok")
            => calls = 1 + Len(rules) * Len(PII_KINDS)
                         + (IF TextAfterLastDot(path) # <<>>
                            THEN Len(PII_KINDS) ELSE 0)
    /\ (pc = "done" /\ ret.tag = "Err")
            => calls < 1 + Len(rules) * Len(PII_KINDS) + Len(PII_KINDS)
    /\ calls <= 1 + Len(rules) * Len(PII_KINDS) + Len(PII_KINDS)

\* a finished request over a config with user rules and a path with a key
C9_Witness ==
    /\ pc = "done"
    /\ ret.tag = "Ok"
    /\ Len(rules) > Len(BUILTIN_RULES)
    /\ key # <<>>
    /\ calls = 1 + Len(rules) * Len(PII_KINDS) + Len(PII_KINDS)

\* a finished request whose key phase was skipped
C9_SkippedWitness ==
    /\ pc = "done"
    /\ ret.tag = "Ok"
    /\ key = <<>>
    /\ calls = 1 + Len(rules) * Len(PII_KINDS)

Member(doc, name) == IF name \in DOMAIN doc THEN doc[name].m ELSE EmptyMap

ItemsOf(apps, pii_kind) ==
    IF pii_kind \in DOMAIN apps THEN apps[pii_kind].items ELSE <<>>

\* `doc` is `base` with one reference to `rule` appended to
\* applications[pii_kind] and nothing else changed
IsBasePlusReference(doc, base, pii_kind, rule) ==
    /\ DOMAIN doc = DOMAIN base \cup {"applications"}
    /\ \A n \in DOMAIN base \ {"applications"} : doc[n] = base[n]
    /\ doc["applications"].kind = "obj"
    /\ DOMAIN doc["applications"].m
            = DOMAIN Member(base, "applications") \cup {pii_kind}
    /\ \A k \in DOMAIN Member(base, "applications") \ {pii_kind} :
            doc["applications"].m[k] = Member(base, "applications")[k]
    /\ doc["applications"].m[pii_kind]
            = JArr(ItemsOf(Member(base, "applications"), pii_kind)
                   \o <<JStr(rule)>>)

\* `doc` is `base` with the key rule for `k` defined and nothing else changed
IsBasePlusKeyRule(doc, base, k) ==
    /\ DOMAIN doc = DOMAIN base \cup {"rules"}
    /\ \A n \in DOMAIN base \ {"rules"} : doc[n] = base[n]
    /\ doc["rules"].kind = "obj"
    /\ DOMAIN doc["rules"].m = DOMAIN Member(base, "rules") \cup {key_rule_name(k)}
    /\ \A n \in DOMAIN Member(base, "rules") \ {key_rule_name(k)} :
            doc["rules"].m[n] = Member(base, "rules")[n]
    /\ doc["rules"].m[key_rule_name(k)]
            = JObj(("type" :> JStr(<<"redactPair">>))
                   @@ ("keyPattern" :> JStr(k)))

\* C10: the baseline document is never changed; a ValueSuggestion's config
\* is the baseline with one reference to its rule appended to
\* applications[kind] (created when missing, entries kept, also when the
\* rule is already listed); a KeySuggestion's config is the baseline plus
\* the key rule's definition plus one appended reference to it; no entry
\* carries another candidate's change.
C10_BaselinePlusOne ==
    /\ Parsed => parsed_config = config.json.m
    /\ pc = "key" => IsBasePlusKeyRule(key_config, config.json.m, key)
    /\ \A j \in 1..Len(rv) :
        /\ rv[j].config.wf
        /\ rv[j].config.json.kind = "obj"
        /\ rv[j].tag = "Value" =>
            IsBasePlusReference(rv[j].config.json.m, config.json.m,
                                rv[j].pii_kind, rv[j].name)
        /\ rv[j].tag = "Key" =>
            \E kb \in {key_config} :
                /\ IsBasePlusKeyRule(kb, config.json.m, rv[j].name)
                /\ IsBasePlusReference(rv[j].config.json.m, kb,
                                       rv[j].pii_kind, key_rule_name(rv[j].name))

\* a rule already listed under the kind is listed once more, after the
\* entries that were there
C10_Witness ==
    /\ config = ConfigApplied
    /\ \E j \in 1..Len(rv) :
        /\ rv[j].tag = "Value"
        /\ rv[j].pii_kind = "databag"
        /\ rv[j].name = <<"@ip:replace">>
        /\ rv[j].config.json.m["applications"].m["databag"]
            = JArr(<<JStr(<<"@ip:hash">>), JStr(<<"@ip:replace">>),
                     JStr(<<"@ip:replace">>)>>)
    /\ \E j \in 1..Len(rv) : rv[j].tag = "Key"

----------------------------------------------------------------------------
(* Properties of PiiDemo::update *)

\* the listed suggestions are those of the current event, the current
\* config and the request's path
NeverStale ==
    self.state.tag = "SelectPiiRule" =>
        get_suggestions(proc, self.state.path, self)
            = Suggestions(self.state.suggestions)

\* what one handled message does to the component
UpdateStep ==
    /\ (self'.event # self.event \/ self'.config # self.config)
            => self'.state = Editing
    /\ message'.tag = "PiiConfigChanged"
            => /\ self' = [event |-> self.event, config |-> message'.value,
                           state |-> Editing]
               /\ should_render' = "true"
    /\ accepted' # accepted
            => /\ self.state.tag = "SelectPiiRule"
               /\ \E i \in 1..Len(self.state.suggestions) :
                    self'.config = self.state.suggestions[i].config
               /\ self'.state = Editing
    /\ message'.tag = "EventInputChanged"
            => /\ self' = [event |-> message'.value, config |-> self.config,
                           state |-> Editing]
               /\ should_render' = "true"
    /\ message'.tag = "SelectPiiRule"
            => /\ self'.event = self.event
               /\ self'.config = self.config
               /\ should_render' \in {"true", "panic"}
               /\ should_render' = "true"
                    => /\ self'.state.tag = "SelectPiiRule"
                       /\ self'.state.path = message'.value
               /\ should_render' = "panic" => self' = self
    /\ message'.tag = "StartEditing"
            => /\ self' = [self EXCEPT !.state = Editing]
               /\ should_render'
                    = (IF self.state = Editing THEN "false" ELSE "true")
               /\ self.state = Editing => self' = self

\* C11: whatever messages update handles, the suggestions of a
\* SelectPiiRule state are the result of the search on the component's
\* current event and config and the request's path: every change of the
\* event or the config, accepting a suggestion included (the config becomes
\* that suggestion's config), returns the state to Editing; StartEditing in
\* state Editing changes nothing and asks for no re-render.
C11_NeverStale == []NeverStale /\ [][UpdateStep]_vars

\* suggestions listed after a suggestion was accepted and the event edited
C11_Witness ==
    /\ self.state.tag = "SelectPiiRule"
    /\ self.state.suggestions # <<>>
    /\ accepted = 1
    /\ self.config \notin DemoConfigSet
    /\ self.event = EventText(OtherEvent)
    /\ message.tag = "SelectPiiRule"

\* StartEditing handled in state Editing
C11_StartEditingWitness ==
    /\ message.tag = "StartEditing"
    /\ should_render = "false"
    /\ self.state = Editing
    /\ accepted = 1

====
